---- MODULE Spec2Model ----
(***************************************************************************)
(* A model of the spacelift client library:                                *)
(*   - Spacelift      (src/src/spacelift/main.py): construction, the lazy  *)
(*                    token exchange and the authenticated request path;   *)
(*   - MockSpacelift  (src/src/spacelift/mock_spacelift.py): the in-memory *)
(*                    stand-in with its three collections.                 *)
(*                                                                         *)
(* Python values are modelled as follows.                                  *)
(*   - a str is a TLA+ string; a str that the code splits on blanks (a     *)
(*     requested field) is the sequence of its blank-separated tokens;     *)
(*   - None in a place that otherwise holds a str is the value None;       *)
(*   - a dict is the sequence of its <<key, value>> pairs in insertion     *)
(*     order; a list is a sequence;                                        *)
(*   - an Optional[dict] is a sequence of at most one dict.                *)
(***************************************************************************)
EXTENDS Integers, Sequences, FiniteSets, TLC

VARIABLES
    ctorArgs,    \* the arguments given to Spacelift(...)
    ctorEnv,     \* os.environ at construction
    ctorResult,  \* what Spacelift(...) did: pending, the instance, or the error
    key_id,      \* Spacelift.key_id
    jwt,         \* Spacelift._jwt
    headers,     \* Spacelift.headers, the dict shared with the transport
    sent,        \* the requests handed to the transport, oldest first
    ret,         \* what the last client operation did
    nops,        \* the number of client operations issued
    spaces,      \* MockSpacelift._data["spaces"]
    stacks,      \* MockSpacelift._data["stacks"]
    contexts,    \* MockSpacelift._data["contexts"]
    mret         \* what the last mock operation did

ctorVars == <<ctorArgs, ctorEnv, ctorResult>>
clientVars == <<key_id, jwt, headers, sent, ret, nops>>
mockVars == <<spaces, stacks, contexts, mret>>
vars == <<ctorArgs, ctorEnv, ctorResult, key_id, jwt, headers, sent, ret, nops,
          spaces, stacks, contexts, mret>>

---------------------------------------------------------------------------
(* Python values *)

None == "<None>"

\* bool(v) of a str or None
Truthy(v) == v # None /\ v # ""

\* `a or b`
Or(a, b) == IF Truthy(a) THEN a ELSE b

\* str(v), as an f-string formats it
Str(v) == IF v = None THEN "None" ELSE v

Range(s) == {s[i] : i \in DOMAIN s}

\* dict: the sequence of <<key, value>> in insertion order
Keys(d) == [i \in DOMAIN d |-> d[i][1]]
Has(d, k) == \E i \in DOMAIN d : d[i][1] = k
Get(d, k) == d[CHOOSE i \in DOMAIN d : d[i][1] = k][2]
\* d[k] = v: an existing key keeps its place, a new key goes last
Put(d, k, v) ==
    IF Has(d, k)
    THEN [i \in DOMAIN d |-> IF d[i][1] = k THEN <<k, v>> ELSE d[i]]
    ELSE Append(d, <<k, v>>)

\* list.remove(x): the list without its first element equal to x
RemoveFirst(s, x) ==
    LET i == CHOOSE j \in DOMAIN s : s[j] = x /\ \A h \in 1..(j - 1) : s[h] # x
    IN  SubSeq(s, 1, i - 1) \o SubSeq(s, i + 1, Len(s))

---------------------------------------------------------------------------
(* Spacelift.__init__ and _validate_params *)

ParamNames == <<"base_url", "key_id", "key_secret">>
EnvNames == <<"SPACELIFT_BASE_URL", "SPACELIFT_KEY_ID", "SPACELIFT_KEY_SECRET">>

\* what a caller passes, by parameter
ArgValues == [base_url |-> {None, "", "https://arg"},
              key_id |-> {None, "", "arg-id"},
              key_secret |-> {None, "", "arg-secret"}]
\* what os.environ.get returns, by variable (None: the variable is not set)
EnvValues == [SPACELIFT_BASE_URL |-> {None, "", "https://env"},
              SPACELIFT_KEY_ID |-> {None, "", "env-id"},
              SPACELIFT_KEY_SECRET |-> {None, "", "env-secret"}]

Pending == [status |-> "pending"]

\* a faulty variant: stop at the first missing parameter
ValidateParamsFirstOnly(args, env) ==
    LET result == [i \in 1..3 |-> <<ParamNames[i], Or(args[ParamNames[i]], env[EnvNames[i]])>>]
        null_params == Keys(SelectSeq(result, LAMBDA p : ~Truthy(p[2])))
    IN  IF null_params # <<>>
        THEN [status |-> "raise", exc |-> "ValueError", missing |-> <<Head(null_params)>>]
        ELSE [status |-> "ok", params |-> result]

_validate_params(args, env) ==
    LET result == [i \in 1..3 |-> <<ParamNames[i], Or(args[ParamNames[i]], env[EnvNames[i]])>>]
        null_params == Keys(SelectSeq(result, LAMBDA p : ~Truthy(p[2])))
    IN  IF null_params # <<>>
        THEN [status |-> "raise", exc |-> "ValueError", missing |-> null_params]
        ELSE [status |-> "ok", params |-> result]

\* Spacelift(base_url, key_id, key_secret): the instance, or the error raised
Construct ==
    /\ ctorResult = Pending
    /\ ctorResult' =
         LET params == _validate_params(ctorArgs, ctorEnv)
         IN  IF params.status = "raise"
             THEN params
             ELSE [status |-> "ok",
                   base_url |-> Get(params.params, "base_url"),
                   key_id |-> Get(params.params, "key_id"),
                   key_secret |-> Get(params.params, "key_secret"),
                   jwt |-> None,
                   headers |-> <<>>]
    /\ UNCHANGED <<ctorArgs, ctorEnv, clientVars, mockVars>>

CtorInit ==
    /\ ctorArgs \in [base_url : ArgValues.base_url, key_id : ArgValues.key_id,
                     key_secret : ArgValues.key_secret]
    /\ ctorEnv \in [SPACELIFT_BASE_URL : EnvValues.SPACELIFT_BASE_URL,
                    SPACELIFT_KEY_ID : EnvValues.SPACELIFT_KEY_ID,
                    SPACELIFT_KEY_SECRET : EnvValues.SPACELIFT_KEY_SECRET]
    /\ ctorResult = Pending

CtorIdle ==
    /\ ctorArgs = [base_url |-> None, key_id |-> None, key_secret |-> None]
    /\ ctorEnv = [SPACELIFT_BASE_URL |-> None, SPACELIFT_KEY_ID |-> None,
                  SPACELIFT_KEY_SECRET |-> None]
    /\ ctorResult = Pending

ClientIdle ==
    /\ key_id = "arg-id"
    /\ jwt = None
    /\ headers = <<>>
    /\ sent = <<>>
    /\ ret = [method |-> "none"]
    /\ nops = 0

MockIdle ==
    /\ spaces = <<>>
    /\ stacks = <<>>
    /\ contexts = <<>>
    /\ mret = [op |-> "none"]

---------------------------------------------------------------------------
(* Spacelift: the token exchange and the request path *)

MaxOps == 3

\* a key of a dict that is not there
Absent == "<absent>"

\* What the transport does with the token-exchange request: it raises, or it
\* returns the decoded response. The response is given by its apiKeyUser
\* entry (not in the response, null, or an object) and the object's jwt
\* entry (not in the object, null, or a string).
ExchangeOutcomes ==
    {[raises |-> TRUE, user |-> Absent, jwt |-> Absent]}
    \cup {[raises |-> FALSE, user |-> u, jwt |-> Absent] : u \in {Absent, "null"}}
    \cup {[raises |-> FALSE, user |-> "object", jwt |-> j] :
             j \in {Absent, None, "", "tok1", "tok2"}}

\* no exchange takes place
NoExchange == [raises |-> FALSE, user |-> "unused", jwt |-> Absent]

\* What the transport does with a resource request: it raises, or it returns
\* the decoded response, a dict with the operation's top-level key.
Payload == << <<"id", "x1">> >>
ResourceOutcomes == {"raise", "respond"}

\* method -> the top-level key of its response
ResponseKey ==
    [get_stacks |-> "stacks", get_stack_by_id |-> "stack",
     get_spaces |-> "spaces", get_space_by_id |-> "space",
     get_contexts |-> "contexts", get_context_by_id |-> "context",
     create_context |-> "contextCreateV2", delete_context |-> "contextDelete",
     create_space |-> "spaceCreate", delete_space |-> "spaceDelete",
     trigger_run |-> "runTrigger"]

\* the methods that return self._execute(...)[key]; the others return the
\* result of self._execute(...) as it is
IndexingMethods ==
    {"get_stacks", "get_stack_by_id", "get_spaces", "get_space_by_id",
     "get_contexts", "get_context_by_id", "trigger_run"}

Returned(method, response) ==
    IF method \in IndexingMethods THEN Get(response, ResponseKey[method]) ELSE response

\* _get_jwt once client.execute has returned the response x
_get_jwt(x, kid) ==
    IF x.user \in {Absent, "null"}               \* result.get("apiKeyUser") is None
    THEN [status |-> "raise", exc |-> "ValueError", key_id |-> kid, val |-> None]
    ELSE IF x.jwt = Absent                       \* result["apiKeyUser"]["jwt"]
    THEN [status |-> "raise", exc |-> "KeyError", key_id |-> "", val |-> None]
    ELSE [status |-> "ok", exc |-> "", key_id |-> "", val |-> x.jwt]

\* a faulty variant: the token is fetched whenever it is read
JwtNeededAlways(j) == TRUE

\* the jwt property's test `not self._jwt`
JwtNeeded(j) == ~Truthy(j)

\* the headers the token-exchange request goes out with: the shared dict as
\* it is while f"Bearer {self.jwt}" is being evaluated, before the assignment
AuthHeaders(h, j) == h

\* self.transport.headers["Authorization"] = f"Bearer {self.jwt}"
Bearer(h, tok) == Put(h, "Authorization", "Bearer " \o Str(tok))

\* a faulty variant: a request the transport fails is handed over once more
ExecuteRetrying(request, outcome) ==
    IF outcome = "raise" THEN <<request, request>> ELSE <<request>>

\* self.client.execute(query, ...): the requests one call hands to the
\* transport, whose answer is outcome ("raise" or "respond")
Execute(request, outcome) == <<request>>

\* One operation of the client, whole: the method builds its document and
\* calls _execute, which reads the jwt property (exchanging the key for a
\* token when none is cached), sets the header and hands the request to the
\* transport. x is what the transport does with the exchange, r with the
\* resource request.
Call(method, x, r) ==
    LET op == nops + 1
        exchange == JwtNeeded(jwt)
        authReq == [kind |-> "auth", headers |-> AuthHeaders(headers, jwt), op |-> op]
        sent1 == IF exchange
                 THEN sent \o Execute(authReq, IF x.raises THEN "raise" ELSE "respond")
                 ELSE sent
        got == IF ~exchange THEN [status |-> "ok", exc |-> "", key_id |-> "", val |-> jwt]
               ELSE IF x.raises
               THEN [status |-> "raise", exc |-> "TransportError", key_id |-> "", val |-> None]
               ELSE _get_jwt(x, key_id)
    IN  /\ nops < MaxOps
        /\ nops' = op
        /\ UNCHANGED <<key_id, ctorVars, mockVars>>
        /\ IF got.status = "raise"
           THEN /\ sent' = sent1
                /\ UNCHANGED <<jwt, headers>>
                /\ ret' = [method |-> method, exchange |-> x, status |-> "raise",
                           exc |-> got.exc, key_id |-> got.key_id, value |-> <<>>,
                           resource |-> "unsent"]
           ELSE LET hdr == Bearer(headers, got.val)
                    resReq == [kind |-> "resource", headers |-> hdr, op |-> op]
                    response == << <<ResponseKey[method], Payload>> >>
                IN  /\ jwt' = got.val
                    /\ headers' = hdr
                    /\ sent' = sent1 \o Execute(resReq, r)
                    /\ ret' = IF r = "raise"
                              THEN [method |-> method, exchange |-> x, status |-> "raise",
                                    exc |-> "TransportError", key_id |-> "", value |-> <<>>,
                                    resource |-> r]
                              ELSE [method |-> method, exchange |-> x, status |-> "ok",
                                    exc |-> "", key_id |-> "",
                                    value |-> Returned(method, response),
                                    resource |-> r]

\* what the transport may do with the exchange of an operation: nothing when
\* a token is cached
Exchanges == IF JwtNeeded(jwt) THEN ExchangeOutcomes ELSE {NoExchange}

GetStacks ==
    \E x \in Exchanges, r \in ResourceOutcomes : Call("get_stacks", x, r)

GetStackById ==
    \E x \in Exchanges, r \in ResourceOutcomes : Call("get_stack_by_id", x, r)

GetSpaces ==
    \E x \in Exchanges, r \in ResourceOutcomes : Call("get_spaces", x, r)

GetSpaceById ==
    \E x \in Exchanges, r \in ResourceOutcomes : Call("get_space_by_id", x, r)

GetContexts ==
    \E x \in Exchanges, r \in ResourceOutcomes : Call("get_contexts", x, r)

GetContextById ==
    \E x \in Exchanges, r \in ResourceOutcomes : Call("get_context_by_id", x, r)

CreateContext ==
    \E x \in Exchanges, r \in ResourceOutcomes : Call("create_context", x, r)

DeleteContext ==
    \E x \in Exchanges, r \in ResourceOutcomes : Call("delete_context", x, r)

CreateSpace ==
    \E x \in Exchanges, r \in ResourceOutcomes : Call("create_space", x, r)

DeleteSpace ==
    \E x \in Exchanges, r \in ResourceOutcomes : Call("delete_space", x, r)

TriggerRun ==
    \E x \in Exchanges, r \in ResourceOutcomes : Call("trigger_run", x, r)

\* the instance as __init__ leaves it
ClientInit ==
    /\ key_id \in {"arg-id", "env-id"}
    /\ jwt = None
    /\ headers = <<>>
    /\ sent = <<>>
    /\ ret = [method |-> "none"]
    /\ nops = 0

InitClient == CtorIdle /\ ClientInit /\ MockIdle
NextClient ==
    \/ GetStacks \/ GetStackById \/ GetSpaces \/ GetSpaceById
    \/ GetContexts \/ GetContextById
    \/ CreateContext \/ DeleteContext \/ CreateSpace \/ DeleteSpace
    \/ TriggerRun
SpecClient == InitClient /\ [][NextClient]_vars

---------------------------------------------------------------------------
(* MockSpacelift: values and helpers *)

MaxSpaces == 2
MaxContexts == 2

\* a field name as a requested field: the str of one token
F(name) == <<name>>

\* Optional[...]: None, or the value
NoneOpt == <<>>
Some(v) == <<v>>

\* the outcome of a call: a return value or an exception
NoExc == [type |-> "", message |-> "", path |-> <<>>]
Return(v) == [status |-> "ok", exc |-> NoExc, val |-> v]
Raise(type, message, path) ==
    [status |-> "raise", exc |-> [type |-> type, message |-> message, path |-> path],
     val |-> <<>>]

\* a faulty variant: nothing is filtered out
FieldFilterAll(item, query_fields) == item

\* field_filter: the entries of item whose key is in query_fields, in item's order
field_filter(item, query_fields) ==
    SelectSeq(item, LAMBDA p : \E i \in DOMAIN query_fields : query_fields[i] = F(p[1]))

\* field.startswith("config"), over the fields the model requests
StartsWithConfig(field) == Len(field) > 0 /\ field[1] = "config"

\* field.split(" ")[1:] without the tokens that are substrings of "{}"
ConfigFieldsOf(field) ==
    LET rest == SelectSeq(Tail(field), LAMBDA t : t \notin {"", "{", "}", "{}"})
    IN  [i \in DOMAIN rest |-> F(rest[i])]

\* The loop of get_contexts over query_fields, which it changes while it
\* iterates: the iterator is at index i (from 1), config_fields is cf.
\* Returns the list and config_fields as the loop leaves them.
RECURSIVE ScanFields(_, _, _)
ScanFields(query_fields, i, cf) ==
    IF i > Len(query_fields)
    THEN [query_fields |-> query_fields, config_fields |-> cf]
    ELSE LET field == query_fields[i]
         IN  IF StartsWithConfig(field)
             THEN ScanFields(Append(RemoveFirst(query_fields, field), F("config")),
                             i + 1, ConfigFieldsOf(field))
             ELSE ScanFields(query_fields, i + 1, cf)

\* [x for x in items if x["id"] == id], then None or the first: KeyError when
\* an item has no "id"
FirstById(items, id) ==
    IF \E i \in DOMAIN items : ~Has(items[i], "id")
    THEN Raise("KeyError", "id", <<>>)
    ELSE LET found == SelectSeq(items, LAMBDA x : Get(x, "id") = id)
         IN  IF Len(found) = 0 THEN Return(NoneOpt) ELSE Return(Some(found[1]))

Default(query_fields, default) ==
    IF query_fields = NoneOpt THEN default ELSE query_fields[1]

---------------------------------------------------------------------------
(* MockSpacelift: the methods as functions of the store *)

get_stacks(S, query_fields) ==
    LET qf == Default(query_fields, <<F("id"), F("space")>>)
    IN  Return([i \in DOMAIN S |-> field_filter(S[i], qf)])

get_stack_by_id(S, stack_id, query_fields) ==
    LET qf == Default(query_fields, <<F("id"), F("space")>>)
    IN  FirstById(get_stacks(S, Some(qf)).val, stack_id)

get_spaces(S, query_fields) ==
    LET qf == Default(query_fields, <<F("id"), F("name")>>)
    IN  Return([i \in DOMAIN S |-> field_filter(S[i], qf)])

get_space_by_id(S, space_id, query_fields) ==
    LET qf == Default(query_fields, <<F("id"), F("name")>>)
    IN  FirstById(get_spaces(S, Some(qf)).val, space_id)

\* a faulty variant: the projected dict is the stored dict itself
AssignedInPlace(stored, k, v) == Put(stored, k, v)

\* the stored entity after projected[k] = v, where projected is the dict
\* field_filter built of it: a new dict, so that the assignment leaves the
\* stored one as it is
AssignedOnCopy(stored, k, v) == stored

\* get_contexts: the outcome, the caller's list and the stored contexts as
\* the call leaves them
get_contexts(C, query_fields) ==
    LET scan == ScanFields(Default(query_fields, <<F("id"), F("name")>>), 1, <<>>)
        qf == scan.query_fields
        projected == [i \in DOMAIN C |-> field_filter(C[i], qf)]
        nested == \E i \in DOMAIN qf : qf[i] = F("config")
        left == IF query_fields = NoneOpt THEN NoneOpt ELSE Some(qf)
        filtered(i) == LET config == Get(projected[i], "config")
                       IN  [j \in DOMAIN config |->
                               field_filter(config[j], scan.config_fields)]
    IN  IF ~nested
        THEN [out |-> Return(projected), fields |-> left, contexts |-> C]
        ELSE IF \E i \in DOMAIN projected : ~Has(projected[i], "config")
        THEN [out |-> Raise("KeyError", "config", <<>>), fields |-> left, contexts |-> C]
        ELSE [out |-> Return([i \in DOMAIN projected |->
                                 Put(projected[i], "config", filtered(i))]),
              fields |-> left,
              contexts |-> [i \in DOMAIN C |-> AssignedOnCopy(C[i], "config", filtered(i))]]

get_context_by_id(C, context_id, query_fields) ==
    LET qf == Default(query_fields, <<F("id"), F("name")>>)
        got == get_contexts(C, Some(qf))
        left == IF query_fields = NoneOpt THEN NoneOpt ELSE got.fields
    IN  IF got.out.status = "raise"
        THEN [out |-> got.out, fields |-> left, contexts |-> got.contexts]
        ELSE [out |-> FirstById(got.out.val, context_id), fields |-> left,
              contexts |-> got.contexts]

\* a faulty variant: the name is not checked against the stored contexts
CreateContextNoDupCheck(S, C, a) ==
    LET parent_space == get_space_by_id(S, a.space_id, NoneOpt)
        config == [i \in DOMAIN a.envvars |->
                     << <<"id", Get(a.envvars[i], "id")>>,
                        <<"value", Get(a.envvars[i], "value")>>,
                        <<"writeOnly", FALSE>> >>]
        item == << <<"name", a.context_name>>, <<"id", a.context_name>>,
                   <<"space", a.space_id>>, <<"description", a.description>>,
                   <<"labels", a.labels>>, <<"config", config>> >>
    IN  IF parent_space.status = "raise"
        THEN [out |-> parent_space, contexts |-> C]
        ELSE IF parent_space.val = NoneOpt
        THEN [out |-> Raise("Exception", "unauthorized", <<"contextCreateV2">>),
              contexts |-> C]
        ELSE [out |-> Return(<< <<"contextCreateV2",
                                  field_filter(item, <<F("id"), F("name")>>)>> >>),
              contexts |-> Append(C, item)]

\* a faulty variant: a duplicate name replaces the stored context
CreateContextOverwrite(S, C, a) ==
    LET r == CreateContextNoDupCheck(S, C, a)
    IN  IF r.out.status = "ok"
           /\ \E i \in DOMAIN C : Get(C[i], "name") = a.context_name
        THEN [out |-> Raise("Exception",
                            "could not persist context: context with this slug already exists for this account",
                            <<"contextCreateV2">>),
              contexts |-> [i \in DOMAIN C |->
                              IF Get(C[i], "name") = a.context_name
                              THEN r.contexts[Len(r.contexts)] ELSE C[i]]]
        ELSE r

\* a faulty variant: the space is not looked up
CreateContextNoSpaceCheck(S, C, a) ==
    LET config == [i \in DOMAIN a.envvars |->
                     << <<"id", Get(a.envvars[i], "id")>>,
                        <<"value", Get(a.envvars[i], "value")>>,
                        <<"writeOnly", FALSE>> >>]
        item == << <<"name", a.context_name>>, <<"id", a.context_name>>,
                   <<"space", a.space_id>>, <<"description", a.description>>,
                   <<"labels", a.labels>>, <<"config", config>> >>
    IN  IF \E i \in DOMAIN C : Get(C[i], "name") = a.context_name
        THEN [out |-> Raise("Exception",
                            "could not persist context: context with this slug already exists for this account",
                            <<"contextCreateV2">>),
              contexts |-> C]
        ELSE [out |-> Return(<< <<"contextCreateV2",
                                  field_filter(item, <<F("id"), F("name")>>)>> >>),
              contexts |-> Append(C, item)]

\* a faulty variant: writeOnly is stored as the caller passed it
CreateContextKeepWriteOnly(S, C, a) ==
    LET r == CreateContextNoDupCheck(S, C, a)
        kept == [i \in DOMAIN a.envvars |->
                   << <<"id", Get(a.envvars[i], "id")>>,
                      <<"value", Get(a.envvars[i], "value")>>,
                      <<"writeOnly", Get(a.envvars[i], "writeOnly")>> >>]
    IN  IF \E i \in DOMAIN C : Get(C[i], "name") = a.context_name
        THEN [out |-> Raise("Exception",
                            "could not persist context: context with this slug already exists for this account",
                            <<"contextCreateV2">>),
              contexts |-> C]
        ELSE IF r.out.status = "raise" THEN r
        ELSE [out |-> r.out,
              contexts |-> Append(C, Put(r.contexts[Len(r.contexts)], "config", kept))]

\* create_context on the spaces S and the contexts C with the arguments a:
\* the outcome and the contexts as the call leaves them
create_context(S, C, a) ==
    LET parent_space == get_space_by_id(S, a.space_id, NoneOpt)
        config == [i \in DOMAIN a.envvars |->
                     << <<"id", Get(a.envvars[i], "id")>>,
                        <<"value", Get(a.envvars[i], "value")>>,
                        <<"writeOnly", FALSE>> >>]
        item == << <<"name", a.context_name>>, <<"id", a.context_name>>,
                   <<"space", a.space_id>>, <<"description", a.description>>,
                   <<"labels", a.labels>>, <<"config", config>> >>
    IN  IF parent_space.status = "raise"
        THEN [out |-> parent_space, contexts |-> C]
        ELSE IF parent_space.val = NoneOpt
        THEN [out |-> Raise("Exception", "unauthorized", <<"contextCreateV2">>),
              contexts |-> C]
        ELSE IF \E i \in DOMAIN C : Get(C[i], "name") = a.context_name
        THEN [out |-> Raise("Exception",
                            "could not persist context: context with this slug already exists for this account",
                            <<"contextCreateV2">>),
              contexts |-> C]
        ELSE [out |-> Return(<< <<"contextCreateV2",
                                  field_filter(item, <<F("id"), F("name")>>)>> >>),
              contexts |-> Append(C, item)]

\* the loop shared by delete_context and delete_space: the first item whose
\* id is the one given is removed and the id echoed under key; None under
\* key when the loop ends without a match
DeleteById(items, id, key) ==
    LET hits == {i \in DOMAIN items : Has(items[i], "id") /\ Get(items[i], "id") = id}
        first == IF hits = {} THEN Len(items) + 1
                 ELSE CHOOSE i \in hits : \A j \in hits : i <= j
    IN  IF \E i \in 1..(first - 1) : ~Has(items[i], "id")
        THEN [out |-> Raise("KeyError", "id", <<>>), items |-> items]
        ELSE IF hits = {}
        THEN [out |-> Return(<< <<key, NoneOpt>> >>), items |-> items]
        ELSE [out |-> Return(<< <<key, Some(<< <<"id", id>> >>)>> >>),
              items |-> RemoveFirst(items, items[first])]

delete_context(C, context_id) == DeleteById(C, context_id, "contextDelete")

\* a faulty variant: every space with the id is removed
DeleteSpaceAll(S, space_id) ==
    [out |-> DeleteById(S, space_id, "spaceDelete").out,
     items |-> SelectSeq(S, LAMBDA x : Get(x, "id") # space_id)]

delete_space(S, space_id) == DeleteById(S, space_id, "spaceDelete")

\* the 16 random characters of create_space, as the model draws them
Suffixes == {"a", "b"}

\* a faulty variant: anything may be created under a root that is not there
CreateSpaceAnyUnderRoot(S, a, generated_id) ==
    LET id == IF a.space_name \notin {"root", "legacy"}
              THEN a.space_name \o "-" \o generated_id ELSE a.space_name
        parent_space == get_space_by_id(S, a.parent_space_id, NoneOpt)
        bootstrap == a.parent_space_id = "root"
        item == << <<"name", a.space_name>>, <<"id", id>>,
                   <<"parent", IF parent_space.val = NoneOpt THEN None
                               ELSE a.parent_space_id>>,
                   <<"description", a.description>>, <<"labels", a.labels>>,
                   <<"inherit_entities", a.inherit_entities>> >>
    IN  IF parent_space.val = NoneOpt /\ ~bootstrap
        THEN [out |-> Raise("Exception", "parent space not found", <<"spaceCreate">>),
              spaces |-> S]
        ELSE [out |-> Return(<< <<"spaceCreate",
                                  field_filter(item, <<F("id"), F("name")>>)>> >>),
              spaces |-> Append(S, item)]

\* create_space on the spaces S with the arguments a and the random suffix
\* generated_id: the outcome and the spaces as the call leaves them
create_space(S, a, generated_id) ==
    LET id == IF a.space_name \notin {"root", "legacy"}
              THEN a.space_name \o "-" \o generated_id ELSE a.space_name
        parent_space == get_space_by_id(S, a.parent_space_id, NoneOpt)
        bootstrap == a.space_name = a.parent_space_id /\ a.parent_space_id = "root"
        item == << <<"name", a.space_name>>, <<"id", id>>,
                   <<"parent", IF parent_space.val = NoneOpt THEN None
                               ELSE a.parent_space_id>>,
                   <<"description", a.description>>, <<"labels", a.labels>>,
                   <<"inherit_entities", a.inherit_entities>> >>
    IN  IF parent_space.status = "raise"
        THEN [out |-> parent_space, spaces |-> S]
        ELSE IF parent_space.val = NoneOpt /\ ~bootstrap
        THEN [out |-> Raise("Exception", "parent space not found", <<"spaceCreate">>),
              spaces |-> S]
        ELSE [out |-> Return(<< <<"spaceCreate",
                                  field_filter(item, <<F("id"), F("name")>>)>> >>),
              spaces |-> Append(S, item)]

---------------------------------------------------------------------------
(* MockSpacelift: the calls a test makes *)

ConfigSelection == <<"config", "{", "id", "value", "}">>

\* the field lists a caller passes (None: the argument is left out)
FieldLists == {<<F("id")>>, <<F("name")>>}
FieldInputs == {NoneOpt} \cup {Some(l) : l \in FieldLists}
\* and those a caller passes for contexts, with a selection of config fields
ContextFieldInputs ==
    FieldInputs \cup {Some(<<F("id"), ConfigSelection>>), Some(<<ConfigSelection, F("id")>>)}
\* the field lists passed to the lookups by id: the default, and one without "id"
LookupFieldInputs == {NoneOpt, Some(<<F("name")>>)}
ContextLookupFieldInputs ==
    LookupFieldInputs \cup {Some(<<F("id"), ConfigSelection>>), Some(<<ConfigSelection, F("id")>>)}

SpaceNames == {"root", "legacy", "foo"}
SpaceIdInputs == {"root", "foo-a"}
ParentIdInputs == {"root"}
ContextSpaceInputs == {"root"}
StackIdInputs == {"s2", "nope"}
ContextNames == {"c1", "c2"}
ContextIdInputs == {"c1", "nope"}

EnvVar(id, value, writeOnly) ==
    << <<"id", id>>, <<"value", value>>, <<"type", "ENVIRONMENT_VARIABLE">>,
       <<"writeOnly", writeOnly>> >>

\* description, labels and envvars of a create_context call
ContextDetails ==
    {[description |-> "", labels |-> <<>>, envvars |-> <<>>],
     [description |-> "d", labels |-> <<"l1">>,
      envvars |-> <<EnvVar("FOO", "bar", FALSE), EnvVar("BAZ", "qux", TRUE)>>]}

\* the mock has no call that adds a stack: a test fills _data["stacks"]
\* itself before it uses the mock, here with two stacks that have a field
\* beyond the default ones
StackFixtures ==
    {<< << <<"id", "s1">>, <<"space", "root">>, <<"branch", "main">> >>,
        << <<"id", "s2">>, <<"space", "legacy">>, <<"branch", "dev">> >> >>}

Done(op, args, out, fields) ==
    [op |-> op, args |-> args, status |-> out.status, exc |-> out.exc,
     val |-> out.val, fields |-> fields]

MockGetStacks ==
    \E qf \in FieldInputs :
        /\ mret' = Done("get_stacks", [query_fields |-> qf], get_stacks(stacks, qf), qf)
        /\ UNCHANGED <<spaces, stacks, contexts, ctorVars, clientVars>>

MockGetStackById ==
    \E id \in StackIdInputs, qf \in LookupFieldInputs :
        /\ mret' = Done("get_stack_by_id", [id |-> id, query_fields |-> qf],
                        get_stack_by_id(stacks, id, qf), qf)
        /\ UNCHANGED <<spaces, stacks, contexts, ctorVars, clientVars>>

MockGetSpaces ==
    \E qf \in FieldInputs :
        /\ mret' = Done("get_spaces", [query_fields |-> qf], get_spaces(spaces, qf), qf)
        /\ UNCHANGED <<spaces, stacks, contexts, ctorVars, clientVars>>

MockGetSpaceById ==
    \E id \in SpaceIdInputs, qf \in LookupFieldInputs :
        /\ mret' = Done("get_space_by_id", [id |-> id, query_fields |-> qf],
                        get_space_by_id(spaces, id, qf), qf)
        /\ UNCHANGED <<spaces, stacks, contexts, ctorVars, clientVars>>

MockGetContexts ==
    \E qf \in ContextFieldInputs :
        LET r == get_contexts(contexts, qf)
        IN  /\ mret' = Done("get_contexts", [query_fields |-> qf], r.out, r.fields)
            /\ contexts' = r.contexts
            /\ UNCHANGED <<spaces, stacks, ctorVars, clientVars>>

MockGetContextById ==
    \E id \in ContextIdInputs, qf \in ContextLookupFieldInputs :
        LET r == get_context_by_id(contexts, id, qf)
        IN  /\ mret' = Done("get_context_by_id", [id |-> id, query_fields |-> qf],
                            r.out, r.fields)
            /\ contexts' = r.contexts
            /\ UNCHANGED <<spaces, stacks, ctorVars, clientVars>>

MockCreateContext ==
    \E name \in ContextNames, space_id \in ContextSpaceInputs, d \in ContextDetails :
        LET a == [context_name |-> name, space_id |-> space_id,
                  description |-> d.description, labels |-> d.labels,
                  envvars |-> d.envvars]
            r == create_context(spaces, contexts, a)
        IN  /\ Len(r.contexts) <= MaxContexts
            /\ contexts' = r.contexts
            /\ mret' = Done("create_context", a, r.out, NoneOpt)
            /\ UNCHANGED <<spaces, stacks, ctorVars, clientVars>>

MockDeleteContext ==
    \E id \in ContextIdInputs :
        LET r == delete_context(contexts, id)
        IN  /\ contexts' = r.items
            /\ mret' = Done("delete_context", [id |-> id], r.out, NoneOpt)
            /\ UNCHANGED <<spaces, stacks, ctorVars, clientVars>>

MockCreateSpace ==
    \E name \in SpaceNames, parent \in ParentIdInputs, generated_id \in Suffixes :
        LET a == [space_name |-> name, parent_space_id |-> parent,
                  description |-> "", labels |-> <<>>, inherit_entities |-> TRUE]
            r == create_space(spaces, a, generated_id)
        IN  /\ Len(r.spaces) <= MaxSpaces
            /\ spaces' = r.spaces
            /\ mret' = Done("create_space", a, r.out, NoneOpt)
            /\ UNCHANGED <<contexts, stacks, ctorVars, clientVars>>

MockDeleteSpace ==
    \E id \in SpaceIdInputs :
        LET r == delete_space(spaces, id)
        IN  /\ spaces' = r.items
            /\ mret' = Done("delete_space", [id |-> id], r.out, NoneOpt)
            /\ UNCHANGED <<contexts, stacks, ctorVars, clientVars>>

\* trigger_run raises NotImplementedError whatever it is given
MockTriggerRun ==
    \E id \in StackIdInputs :
        /\ mret' = Done("trigger_run", [id |-> id],
                        Raise("NotImplementedError", "", <<>>), NoneOpt)
        /\ UNCHANGED <<spaces, stacks, contexts, ctorVars, clientVars>>

\* the mock as __init__ leaves it, with the stacks the test has put in
MockInit ==
    /\ spaces = <<>>
    /\ stacks \in StackFixtures
    /\ contexts = <<>>
    /\ mret = [op |-> "none"]

InitMock == CtorIdle /\ ClientIdle /\ MockInit
NextMock ==
    \/ MockGetStacks \/ MockGetStackById
    \/ MockGetSpaces \/ MockGetSpaceById
    \/ MockGetContexts \/ MockGetContextById
    \/ MockCreateContext \/ MockDeleteContext
    \/ MockCreateSpace \/ MockDeleteSpace
    \/ MockTriggerRun
SpecMock == InitMock /\ [][NextMock]_vars

InitCtor == CtorInit /\ ClientIdle /\ MockIdle
NextCtor == Construct
SpecCtor == InitCtor /\ [][NextCtor]_vars

---------------------------------------------------------------------------
(* C4 *)

\* a parameter is missing when neither the argument nor the environment
\* variable holds a non-empty value
Missing(i) ==
    /\ ctorArgs[ParamNames[i]] \in {None, ""}
    /\ ctorEnv[EnvNames[i]] \in {None, ""}

MissingSet == {ParamNames[i] : i \in {j \in 1..3 : Missing(j)}}

\* C4: construction succeeds iff no parameter is missing after the
\* environment fallback, and otherwise raises a configuration error that
\* lists every missing parameter and nothing else, each once.
C4_ConstructionListsAllMissing ==
    ctorResult # Pending =>
        /\ (ctorResult.status = "ok") <=> (MissingSet = {})
        /\ ctorResult.status = "raise" =>
              /\ ctorResult.exc = "ValueError"
              /\ Range(ctorResult.missing) = MissingSet
              /\ Len(ctorResult.missing) = Cardinality(MissingSet)
        /\ ctorResult.status = "ok" =>
              /\ Truthy(ctorResult.base_url)
              /\ Truthy(ctorResult.key_id)
              /\ Truthy(ctorResult.key_secret)

\* an incomplete combination with two parameters missing has been rejected
C4_Witness ==
    /\ ctorResult # Pending
    /\ ctorResult.status = "raise"
    /\ Cardinality(MissingSet) = 2
    /\ ctorArgs.base_url = "" /\ ctorEnv.SPACELIFT_BASE_URL = "https://env"

---------------------------------------------------------------------------
(* C1, C2, C3: the token exchange *)

AuthRequests == {i \in DOMAIN sent : sent[i].kind = "auth"}
ResourceRequests == {i \in DOMAIN sent : sent[i].kind = "resource"}

\* C1 as the spec states it: once two or more operations have been issued,
\* exactly one token-exchange request has been sent in total, and it was
\* sent first.
C1_ExactlyOneExchange ==
    nops >= 2 => Cardinality(AuthRequests) = 1 /\ sent[1].kind = "auth"

\* C1, amended: an operation sends a token-exchange request exactly when no
\* non-empty token is cached as it starts, and sends it before its resource
\* request; once a non-empty token is cached it is kept and no later
\* operation sends an exchange.
C1_ExchangeOnlyWhileNoToken ==
    /\ [](\A i \in ResourceRequests : \E j \in AuthRequests : j < i)
    /\ [][/\ Cardinality({i \in DOMAIN sent' : sent'[i].kind = "auth"})
               = Cardinality(AuthRequests) + (IF Truthy(jwt) THEN 0 ELSE 1)
          /\ Truthy(jwt) => jwt' = jwt
          /\ \A i \in DOMAIN sent' :
                (i > Len(sent) /\ sent'[i].kind = "auth") => i = Len(sent) + 1]_vars

\* three operations have run on one token exchange
C1_Witness ==
    /\ nops >= 3
    /\ Cardinality(AuthRequests) = 1
    /\ Cardinality(ResourceRequests) = nops
    /\ Truthy(jwt)

\* what f"Bearer {token}" can be for a jwt entry of an exchange response
BearerValues ==
    {"Bearer " \o Str(x.jwt) : x \in {y \in ExchangeOutcomes : y.user = "object" /\ y.jwt # Absent}}

\* C2 as the spec states it: every resource request goes out with
\* Authorization = "Bearer <token>" for a token an exchange returned, and
\* every token-exchange request goes out without an Authorization header.
C2_BearerOnResourceRequestsOnly ==
    /\ \A i \in ResourceRequests :
          /\ Has(sent[i].headers, "Authorization")
          /\ Get(sent[i].headers, "Authorization") \in BearerValues
    /\ \A i \in AuthRequests : ~Has(sent[i].headers, "Authorization")

\* C3 as the spec states it: when the exchange response has no user object,
\* a null one, or a null jwt in it, the operation that triggered the exchange
\* fails with an authentication error naming the key id, and no token is
\* cached.
C3_NullTokenIsAuthError ==
    (/\ ret.method # "none"
     /\ ret.exchange \in ExchangeOutcomes
     /\ ~ret.exchange.raises
     /\ \/ ret.exchange.user \in {Absent, "null"}
        \/ ret.exchange.user = "object" /\ ret.exchange.jwt = None)
    => /\ ret.status = "raise"
       /\ ret.exc = "ValueError"
       /\ ret.key_id = key_id
       /\ ~Truthy(jwt)

---------------------------------------------------------------------------
(* C5 .. C10: the mock's store *)

Indices(items, id) == {i \in DOMAIN items : Get(items[i], "id") = id}
Without(items, i) == SubSeq(items, 1, i - 1) \o SubSeq(items, i + 1, Len(items))
Least(S) == CHOOSE i \in S : \A j \in S : i <= j

DuplicateMessage ==
    "could not persist context: context with this slug already exists for this account"

\* C5: no two contexts in the collection share a name, nor an id.
C5_ContextNamesUnique ==
    \A i, j \in DOMAIN contexts :
        i # j => /\ Get(contexts[i], "name") # Get(contexts[j], "name")
                 /\ Get(contexts[i], "id") # Get(contexts[j], "id")

\* two contexts are stored
C5_Witness ==
    /\ Len(contexts) = 2
    /\ mret.op = "create_context"
    /\ mret.status = "ok"

\* C6: create_context with the name of a stored context and a space_id that
\* resolves raises the duplicate-name error with path ['contextCreateV2'] and
\* leaves the contexts collection as it was.
C6_DuplicateNameRejected ==
    [][(/\ mret'.op = "create_context"
        /\ \E i \in DOMAIN contexts : Get(contexts[i], "name") = mret'.args.context_name
        /\ Indices(spaces, mret'.args.space_id) # {})
       => /\ mret'.status = "raise"
          /\ mret'.exc.message = DuplicateMessage
          /\ mret'.exc.path = <<"contextCreateV2">>
          /\ contexts' = contexts]_vars

\* a create_context with other details than the stored context of that name
\* has been rejected
C6_Witness ==
    /\ mret.op = "create_context"
    /\ mret.status = "raise"
    /\ mret.exc.message = DuplicateMessage
    /\ \E i \in DOMAIN contexts :
          /\ Get(contexts[i], "name") = mret.args.context_name
          /\ Get(contexts[i], "description") # mret.args.description

\* C7: create_context with a space_id that is the id of no stored space
\* raises an error with a message and path ['contextCreateV2'] and adds
\* nothing to the contexts collection.
C7_UnknownSpaceRejected ==
    [][(/\ mret'.op = "create_context"
        /\ Indices(spaces, mret'.args.space_id) = {})
       => /\ mret'.status = "raise"
          /\ mret'.exc.type = "Exception"
          /\ mret'.exc.message # ""
          /\ mret'.exc.path = <<"contextCreateV2">>
          /\ contexts' = contexts]_vars

\* a create_context in a space that a stored context was created in, and
\* that has been deleted since, has been rejected
C7_Witness ==
    /\ mret.op = "create_context"
    /\ mret.status = "raise"
    /\ mret.exc.message = "unauthorized"
    /\ Indices(spaces, mret.args.space_id) = {}
    /\ \E i \in DOMAIN contexts : Get(contexts[i], "space") = mret.args.space_id

\* C8: create_space succeeds iff the parent id is the id of a stored space
\* or name and parent id are both 'root'; with no such space and both
\* 'root' it stores a space with id 'root' and no parent; otherwise with no
\* such space it raises 'parent space not found' with path ['spaceCreate']
\* and leaves the spaces as they were.
C8_CreateSpaceParentRule ==
    [][mret'.op = "create_space" =>
        LET a == mret'.args
            resolved == Indices(spaces, a.parent_space_id) # {}
            bootstrap == a.space_name = "root" /\ a.parent_space_id = "root"
        IN  /\ (mret'.status = "ok") <=> (resolved \/ bootstrap)
            /\ mret'.status = "ok" =>
                  /\ Len(spaces') = Len(spaces) + 1
                  /\ SubSeq(spaces', 1, Len(spaces)) = spaces
                  /\ Get(spaces'[Len(spaces')], "name") = a.space_name
            /\ (~resolved /\ bootstrap) =>
                  /\ Get(spaces'[Len(spaces')], "id") = "root"
                  /\ Get(spaces'[Len(spaces')], "parent") = None
            /\ (~resolved /\ ~bootstrap) =>
                  /\ mret'.status = "raise"
                  /\ mret'.exc.message = "parent space not found"
                  /\ mret'.exc.path = <<"spaceCreate">>
                  /\ spaces' = spaces]_vars

\* create_space('foo', 'root') has been rejected with no root stored
C8_Witness ==
    /\ mret.op = "create_space"
    /\ mret.status = "raise"
    /\ mret.args.space_name = "foo"
    /\ mret.args.parent_space_id = "root"
    /\ Indices(spaces, "root") = {}

\* what delete_context and delete_space are to do with a collection
DeletedFrom(before, after, id, key, result) ==
    /\ result.status = "ok"
    /\ Indices(before, id) = {} =>
          /\ after = before
          /\ result.val = << <<key, NoneOpt>> >>
    /\ Indices(before, id) # {} =>
          /\ after = Without(before, Least(Indices(before, id)))
          /\ result.val = << <<key, Some(<< <<"id", id>> >>)>> >>

\* C9: delete_context and delete_space never raise; with no entity of the
\* id they return a null result and leave the three collections as they
\* were; otherwise the first entity of that id is removed, the others stay
\* in their order, and the id is echoed.
C9_DeleteRemovesFirstMatch ==
    [][/\ mret'.op = "delete_context" =>
             /\ DeletedFrom(contexts, contexts', mret'.args.id, "contextDelete", mret')
             /\ UNCHANGED <<spaces, stacks>>
       /\ mret'.op = "delete_space" =>
             /\ DeletedFrom(spaces, spaces', mret'.args.id, "spaceDelete", mret')
             /\ UNCHANGED <<contexts, stacks>>]_vars

\* a delete_space has removed one of two spaces with the id
C9_Witness ==
    /\ mret.op = "delete_space"
    /\ mret.val = << <<"spaceDelete", Some(<< <<"id", mret.args.id>> >>)>> >>
    /\ Indices(spaces, mret.args.id) # {}

\* the collection and the default fields of a lookup by id
LookupStore(op) ==
    IF op = "get_stack_by_id" THEN stacks
    ELSE IF op = "get_space_by_id" THEN spaces ELSE contexts

\* C10 as the spec states it: a lookup by id never raises, whatever the
\* field list; it returns None when no stored entity has the id, and an
\* entity otherwise.
C10_LookupNeverRaises ==
    mret.op \in {"get_stack_by_id", "get_space_by_id", "get_context_by_id"} =>
        /\ mret.status = "ok"
        /\ (mret.val = NoneOpt) <=> (Indices(LookupStore(mret.op), mret.args.id) = {})

---------------------------------------------------------------------------
(* C11: the list methods project the stored entities on the requested fields *)

ListOps == {"get_stacks", "get_spaces", "get_contexts"}

\* the collection a list method reads
ListStore(op) ==
    IF op = "get_stacks" THEN stacks
    ELSE IF op = "get_spaces" THEN spaces ELSE contexts

\* the field list a list method was asked for, its default when omitted
AskedFields(op, query_fields) ==
    IF query_fields # NoneOpt THEN query_fields[1]
    ELSE IF op = "get_stacks" THEN <<F("id"), F("space")>>
    ELSE <<F("id"), F("name")>>

\* the key k is requested by the list asked: as a plain name, or as the name
\* a sub-selection opens with
Asks(asked, k) == \E j \in DOMAIN asked : Len(asked[j]) > 0 /\ asked[j][1] = k

\* the field list asked names k with a sub-selection
AsksNested(asked, k) == \E j \in DOMAIN asked : Len(asked[j]) > 1 /\ asked[j][1] = k

---------------------------------------------------------------------------
(* C12: the nested selection of config fields *)

ContextReadOps == {"get_contexts", "get_context_by_id"}

\* the names a sub-selection of k lists between its braces, over all the
\* fields asked
NestedNames(asked, k) ==
    UNION {{asked[j][n] : n \in 2..Len(asked[j])} \ {"{", "}"} :
             j \in {h \in DOMAIN asked : Len(asked[h]) > 1 /\ asked[h][1] = k}}

\* what is to be returned for the stored context c under the fields asked:
\* the requested top-level keys, and under config each stored entry with
\* the nested fields it has
SelectedContext(c, asked) ==
    LET top == SelectSeq(c, LAMBDA p : Asks(asked, p[1]))
        names == NestedNames(asked, "config")
        config == Get(c, "config")
    IN  Put(top, "config",
            [j \in DOMAIN config |-> SelectSeq(config[j], LAMBDA p : p[1] \in names)])

\* C12 as the spec states it: with a field list that holds a sub-selection
\* of config, at any position, get_contexts and get_context_by_id return
\* for each context the config entries with only the nested fields asked,
\* together with the other requested top-level fields.
C12_NestedConfigAtAnyPosition ==
    (/\ mret.op \in ContextReadOps
     /\ mret.args.query_fields # NoneOpt
     /\ AsksNested(mret.args.query_fields[1], "config")) =>
        LET asked == mret.args.query_fields[1]
        IN  /\ mret.status = "ok"
            /\ mret.op = "get_contexts" =>
                  mret.val = [i \in DOMAIN contexts |-> SelectedContext(contexts[i], asked)]
            /\ mret.op = "get_context_by_id" =>
                  IF Indices(contexts, mret.args.id) = {}
                  THEN mret.val = NoneOpt
                  ELSE mret.val = Some(SelectedContext(
                           contexts[Least(Indices(contexts, mret.args.id))], asked))

---------------------------------------------------------------------------
(* C13: what a resource method returns of the decoded response *)

\* C13 as the spec states it: every resource method that returns hands back
\* the subtree found under its own top-level response key, not the response
\* map that holds the key.
C13_ReturnsOwnSubtree ==
    (ret.method # "none" /\ ret.status = "ok") =>
        /\ ~Has(ret.value, ResponseKey[ret.method])
        /\ ret.value = Payload

---------------------------------------------------------------------------
(* C14: what a successful create_context stores and returns *)

\* C14: a create_context that returns appends exactly one context to the end
\* of the contexts, with id and name the given name, the given space,
\* description and labels, and one config entry per envvar in the envvars'
\* order with the envvar's id and value and writeOnly False whatever was
\* passed; it leaves the spaces and stacks alone and returns the id and the
\* name of the context and nothing else of it.
C14_CreateContextAppends ==
    [][(mret'.op = "create_context" /\ mret'.status = "ok") =>
          LET a == mret'.args
              c == contexts'[Len(contexts')]
              config == Get(c, "config")
              created == Get(mret'.val, "contextCreateV2")
          IN  /\ Len(contexts') = Len(contexts) + 1
              /\ SubSeq(contexts', 1, Len(contexts)) = contexts
              /\ UNCHANGED <<spaces, stacks>>
              /\ Get(c, "id") = a.context_name
              /\ Get(c, "name") = a.context_name
              /\ Get(c, "space") = a.space_id
              /\ Get(c, "description") = a.description
              /\ Get(c, "labels") = a.labels
              /\ Len(config) = Len(a.envvars)
              /\ \A i \in DOMAIN config :
                    /\ Get(config[i], "id") = Get(a.envvars[i], "id")
                    /\ Get(config[i], "value") = Get(a.envvars[i], "value")
                    /\ Get(config[i], "writeOnly") = FALSE
              /\ Range(Keys(mret'.val)) = {"contextCreateV2"}
              /\ Range(Keys(created)) = {"id", "name"}
              /\ Get(created, "id") = a.context_name
              /\ Get(created, "name") = a.context_name]_vars

\* a create_context with a write-only envvar has returned, and the context
\* is the last one stored, with its two config entries
C14_Witness ==
    /\ mret.op = "create_context"
    /\ mret.status = "ok"
    /\ \E i \in DOMAIN mret.args.envvars : Get(mret.args.envvars[i], "writeOnly") = TRUE
    /\ Len(contexts) = 2
    /\ Get(contexts[2], "id") = mret.args.context_name
    /\ Len(Get(contexts[2], "config")) = 2

---------------------------------------------------------------------------
(* C15: the ids of the spaces *)

\* the id create_space is to give a space of the name
IdRule(space) ==
    IF Get(space, "name") \in {"root", "legacy"}
    THEN Get(space, "id") = Get(space, "name")
    ELSE \E g \in Suffixes : Get(space, "id") = Get(space, "name") \o "-" \o g

\* C15 as the spec states it: a stored space has its name as id when the
\* name is root or legacy, and the name, a dash and a generated suffix
\* otherwise; and no two stored spaces share an id, whatever create_space
\* and delete_space calls were made.
C15_SpaceIdsDistinct ==
    /\ \A i \in DOMAIN spaces : IdRule(spaces[i])
    /\ \A i, j \in DOMAIN spaces :
          i # j => Get(spaces[i], "id") # Get(spaces[j], "id")

---------------------------------------------------------------------------
(* C16: the client never retries *)

\* the requests an operation has added to the log
NewRequests(before, after) == SubSeq(after, Len(before) + 1, Len(after))

\* C16: an operation hands at most one token-exchange request and at most
\* one resource request to the transport, all after those of the operations
\* before it; when the transport fails the exchange, the operation ends with
\* that failure and has sent the exchange and nothing else; when the
\* transport fails the resource request, the operation ends with that
\* failure and the resource request is the last request it has sent.
C16_NoRetry ==
    [][nops' = nops + 1 =>
          LET new == NewRequests(sent, sent')
          IN  /\ SubSeq(sent', 1, Len(sent)) = sent
              /\ \A n \in DOMAIN new : new[n].op = nops'
              /\ Cardinality({n \in DOMAIN new : new[n].kind = "auth"}) <= 1
              /\ Cardinality({n \in DOMAIN new : new[n].kind = "resource"}) <= 1
              /\ ret'.exchange.raises =>
                    /\ ret'.status = "raise"
                    /\ ret'.exc = "TransportError"
                    /\ Len(new) = 1
                    /\ new[1].kind = "auth"
              /\ ret'.resource = "raise" =>
                    /\ ret'.status = "raise"
                    /\ ret'.exc = "TransportError"
                    /\ new[Len(new)].kind = "resource"]_vars

\* the transport has failed the resource request of the last operation, the
\* last request in the log, and the exchange of an operation before it, which
\* sent no resource request
C16_Witness ==
    /\ ret.method # "none"
    /\ ret.resource = "raise"
    /\ ret.status = "raise"
    /\ sent[Len(sent)].kind = "resource"
    /\ sent[Len(sent)].op = nops
    /\ \E n \in DOMAIN sent :
          /\ sent[n].kind = "auth"
          /\ sent[n].op < nops
          /\ \A h \in DOMAIN sent : sent[h].op = sent[n].op => h = n

---------------------------------------------------------------------------
(* C17: no resource request without a token *)

\* the exchange returned no token: the transport failed it, or the response
\* has no user, or the user no jwt string that is not empty
NoToken(x) ==
    \/ x.raises
    \/ x.user \in {Absent, "null"}
    \/ x.user = "object" /\ x.jwt \in {Absent, None, ""}

\* C17 as the spec states it: every resource request handed to the transport
\* carries an Authorization header made of a token string, not null and not
\* empty, that an exchange has returned; and an operation whose exchange
\* failed or returned no token leaves no token cached and no Authorization
\* header set.
C17_NoResourceRequestWithoutToken ==
    /\ \A n \in DOMAIN sent :
          sent[n].kind = "resource" =>
              /\ Has(sent[n].headers, "Authorization")
              /\ Get(sent[n].headers, "Authorization") \notin {"Bearer None", "Bearer "}
    /\ (ret.method # "none" /\ ret.exchange \in ExchangeOutcomes /\ NoToken(ret.exchange)) =>
          /\ ~Truthy(jwt)
          /\ ~Has(headers, "Authorization")

---------------------------------------------------------------------------
(* C18: the caller's field list across two reads of the contexts *)

\* the same read as the last one, made again with the caller's list as the
\* last one left it
ReadAgain ==
    IF mret.op = "get_contexts"
    THEN get_contexts(contexts, mret.fields).out
    ELSE get_context_by_id(contexts, mret.args.id, mret.fields).out

\* C18 as the spec states it: get_contexts and get_context_by_id leave the
\* field list of the caller as it was, and the same call made again with
\* the same list, the store not having changed, returns what the first
\* call returned.
C18_FieldListUnchanged ==
    mret.op \in ContextReadOps =>
        /\ mret.fields = mret.args.query_fields
        /\ ReadAgain.status = mret.status
        /\ ReadAgain.exc = mret.exc
        /\ ReadAgain.val = mret.val

---------------------------------------------------------------------------
(* C19: the reads and trigger_run leave the store alone *)

ReadOps ==
    {"get_stacks", "get_stack_by_id", "get_spaces", "get_space_by_id",
     "get_contexts", "get_context_by_id"}

\* C19: a read, with any field list, one that selects config fields too, and
\* trigger_run, which always fails, leave the spaces, the stacks and the
\* contexts as they were, the config entries of every stored context too.
C19_ReadsLeaveStore ==
    [][(mret'.op \in ReadOps \cup {"trigger_run"}) =>
          /\ UNCHANGED <<spaces, stacks, contexts>>
          /\ mret'.op = "trigger_run" => mret'.status = "raise"]_vars

\* get_contexts with a selection of config fields has returned entries
\* without writeOnly, of a context whose stored entries have it
C19_Witness ==
    /\ mret.op = "get_contexts"
    /\ mret.status = "ok"
    /\ mret.args.query_fields = Some(<<F("id"), ConfigSelection>>)
    /\ \E i \in DOMAIN contexts :
          LET stored == Get(contexts[i], "config")
              got == Get(mret.val[i], "config")
          IN  /\ Len(stored) = 2 /\ Len(got) = 2
              /\ \A j \in DOMAIN stored :
                    Has(stored[j], "writeOnly") /\ ~Has(got[j], "writeOnly")

====
